---- MODULE Spec2Model ----
(***************************************************************************)
(* Rankify: PDF mock test -> interactive quiz.                             *)
(* Session controller (App.tsx), upload card (UploadSection), quiz         *)
(* navigation state machine and diagram renderer (QuizSection) and the     *)
(* score report (ResultSection), as state machines over React state.       *)
(***************************************************************************)
EXTENDS Integers, Sequences, FiniteSets, TLC

\* ------------------------------------------------------------------ bounds
\* Largest number of questions an extraction result carries.
MaxQuestions == 3
\* Largest number of file reads plus extraction calls pending at one time.
MaxPending == 2
\* Largest number of page-crop renders in flight at one time.
MaxRenders == 2
\* Largest elapsed time, in ticks, the quiz clock is followed to.
MaxSeconds == 2
\* How far outside [0, 1000] a bounding-box component can lie.
CoordOver == 30

\* ------------------------------------------------------- JavaScript values
Null == "null"
Undefined == "undefined"

\* JavaScript truthiness of a string-or-missing value: !!v
Truthy(v) == v \notin {Undefined, Null, ""}

\* obj[key] on a plain object: the value, or undefined when the key is absent
Lookup(obj, key) == IF key \in DOMAIN obj THEN obj[key] ELSE Undefined

\* {} : the empty object
EmptyObject == <<>>

\* ------------------------------------------------------------- data model
UPLOAD == "UPLOAD"
PROCESSING == "PROCESSING"
QUIZ == "QUIZ"
RESULTS == "RESULTS"
ERROR == "ERROR"
AppState == {UPLOAD, PROCESSING, QUIZ, RESULTS, ERROR}

\* Option labels of a question.
OptionIds == {"A", "B"}

\* Base64 contents of the PDF files the user can pick.
Files == {"pdfA", "pdfB"}

NoBox == <<0, 0, 0, 0>>

\* The i-th question of an extracted quiz, with sequential ids. The optional
\* fields are 0 (pageNumber) or <<>> (boundingBox) when absent.
\* Layout "figures": ids from 1, odd questions carry a diagram on page i,
\* even ones the all-zero box. Layout "sparse": ids from 11, the first
\* question has no boundingBox and the others a diagram and no pageNumber.
Question(i, layout) ==
    [id |-> IF layout = "figures" THEN i ELSE 10 + i,
     correctOptionId |-> IF i % 2 = 1 THEN "A" ELSE "B",
     boundingBox |->
        IF layout = "figures"
        THEN (IF i % 2 = 0 THEN NoBox ELSE <<100, 100, 300, 400>>)
        ELSE (IF i = 1 THEN <<>> ELSE <<0, 500, 200, 1000>>),
     pageNumber |-> IF layout = "figures" THEN i ELSE 0]

Questions(n, layout) == [i \in 1..n |-> Question(i, layout)]

\* JSON.parse(text) of the extraction response: null, or an object whose
\* title and questions may be missing.
NullData == [kind |-> "null"]

QuizObject(title, hasQuestions, questions) ==
    [kind |-> "object", title |-> title,
     hasQuestions |-> hasQuestions, questions |-> questions]

\* What parsePdfToQuiz can resolve with: null, an object without questions,
\* and quizzes of every size up to the bound; the title may be missing.
ExtractionResults ==
    {NullData, QuizObject("Mock Test", FALSE, <<>>)}
    \cup {QuizObject(Undefined, TRUE, Questions(n, "sparse")) : n \in 0..MaxQuestions}
    \cup {QuizObject("Mock Test", TRUE, Questions(n, "figures")) : n \in 0..MaxQuestions}

\* Every question id an extraction result can carry.
QuestionIds ==
    UNION {{d.questions[i].id : i \in 1..Len(d.questions)} :
             d \in {r \in ExtractionResults : r.kind = "object"}}

\* err.message of a rejected extraction call
ErrorMessages == {"AI returned no candidates.", ""}

NoQuestionsMessage == "Could not extract any questions from the PDF."
FallbackMessage == "Failed to process PDF. Please try again."

\* ------------------------------------------------------------------ state
VARIABLES
    appState,         \* App: appState
    quizData,         \* App: quizData (NullData when null)
    pdfBase64,        \* App: pdfBase64 (Null when null)
    userAnswers,      \* App: userAnswers, the submitted answer snapshot
    error,            \* App: error (Null when null)
    readers,          \* FileReader loads started by processFile, per file
    inFlight,         \* number of parsePdfToQuiz calls awaiting completion
    crashed,          \* a render threw: React has unmounted the root
    currentIndex,     \* QuizSection: currentIndex
    answers,          \* QuizSection: answers
    markedForReview,  \* QuizSection: markedForReview
    visited,          \* QuizSection: visited
    diagramScale,     \* QuizSection: diagramScale, in hundredths
    pdfDoc,           \* QuizSection: pdfDoc is loaded (non-null)
    pdfLoading,       \* loadPdf awaits getDocument
    isLightboxOpen,   \* QuizSection: isLightboxOpen
    hasDiagram,       \* QuizSection: hasDiagram
    canvas,           \* inline canvas: index of the question whose crop it shows
    lightboxCanvas,   \* lightbox canvas: likewise
    renders,          \* renderPageOnCanvas calls suspended at an await
    cropRect,         \* crop rectangle and viewport of the latest page.render
    rasterSize,       \* width and height the latest crop gave each canvas
    uploadProgress,   \* UploadSection: uploadProgress, in tenths of a percent
    seconds,          \* QuizSection: seconds
    timer,            \* the setInterval of the timer effect is registered
    expandedQuestion, \* ResultSection: expandedQuestion (0 when null)
    detailedSolutions,\* ResultSection: detailedSolutions
    loadingSolutions, \* ResultSection: loadingSolutions
    solveRequests,    \* question ids with a getDetailedSolution call pending
    lastOp            \* history: the last handler run and what it started from

appVars == <<appState, quizData, pdfBase64, userAnswers, error>>
asyncVars == <<readers, inFlight>>
navVars == <<currentIndex, answers, markedForReview, visited>>
viewVars == <<diagramScale, pdfDoc, pdfLoading, isLightboxOpen,
              hasDiagram, canvas, lightboxCanvas, renders, cropRect,
              rasterSize>>
clockVars == <<seconds, timer>>
reportVars == <<expandedQuestion, detailedSolutions, loadingSolutions, solveRequests>>
vars == <<appVars, asyncVars, crashed, navVars, viewVars, clockVars, reportVars,
          uploadProgress, lastOp>>

\* A history entry: the handler, what it started from and, for
\* handleMarkForReview, the marked set it started from.
Op(name, pre) == [op |-> name, pre |-> pre, marked |-> {}]

\* ------------------------------------------------------------ QuizSection
\* A canvas nothing is drawn on.
Blank == -1

\* The sizes of canvases no crop was computed for.
NoRaster == [canvas |-> <<0, 0>>, lightboxCanvas |-> <<0, 0>>]

\* The crop of a canvas no page.render was started on.
NoCrop == [x |-> 0, y |-> 0, w |-> 0, h |-> 0, width |-> 0, height |-> 0]

\* (marks kept in a store that outlives the component)
QuizSectionMountKeepsMarks(loading) ==
    /\ currentIndex' = 0
    /\ answers' = EmptyObject
    /\ markedForReview' = markedForReview
    /\ visited' = {0}
    /\ diagramScale' = 100
    /\ pdfDoc' = FALSE
    /\ pdfLoading' = loading
    /\ isLightboxOpen' = FALSE
    /\ hasDiagram' = FALSE
    /\ canvas' = Blank
    /\ lightboxCanvas' = Blank
    /\ renders' = {}
    /\ cropRect' = NoCrop
    /\ rasterSize' = NoRaster

\* The useState initial values of a freshly mounted QuizSection; the loadPdf
\* effect starts getDocument when there are PDF bytes. With loading = FALSE
\* this is also the state of no mounted instance.
QuizSectionMount(loading) ==
    /\ currentIndex' = 0
    /\ answers' = EmptyObject
    /\ markedForReview' = {}
    /\ visited' = {0}
    /\ diagramScale' = 100
    /\ pdfDoc' = FALSE
    /\ pdfLoading' = loading
    /\ isLightboxOpen' = FALSE
    /\ hasDiagram' = FALSE
    /\ canvas' = Blank
    /\ lightboxCanvas' = Blank
    /\ renders' = {}
    /\ cropRect' = NoCrop
    /\ rasterSize' = NoRaster

\* question.boundingBox || [0, 0, 0, 0]
BoundingBoxOf(q) == IF q.boundingBox = <<>> THEN NoBox ELSE q.boundingBox

\* question.pageNumber || 1
PageNumberOf(q) == IF q.pageNumber = 0 THEN 1 ELSE q.pageNumber

\* (some in place of every)
IsEmptyBoxSome(bbox) == \E i \in 1..Len(bbox) : bbox[i] = 0

\* bbox.every(v => v === 0)
IsEmptyBox(bbox) == \A i \in 1..Len(bbox) : bbox[i] = 0

\* The view state the render effects read and write.
View ==
    [diagramScale |-> diagramScale, hasDiagram |-> hasDiagram,
     canvas |-> canvas, lightboxCanvas |-> lightboxCanvas, renders |-> renders]

\* (an empty box that leaves the canvas as it was)
renderPageOnCanvasNoClear(V, target, index, data, doc) ==
    IF ~doc \/ index >= Len(data.questions) THEN V
    ELSE IF IsEmptyBox(BoundingBoxOf(data.questions[index + 1]))
    THEN [V EXCEPT !.hasDiagram = FALSE]
    ELSE [V EXCEPT !.hasDiagram = TRUE,
                   !.renders = @ \cup {[target |-> target, q |-> index,
                                        stage |-> "getPage"]}]

\* renderPageOnCanvas(target) up to its first await, run by a render of
\* QuizSection whose closure holds index, data and doc: returns at once
\* without a document or a question; for an empty box clears the canvas and
\* reports no diagram; otherwise reports a diagram and suspends at getPage.
renderPageOnCanvas(V, target, index, data, doc) ==
    IF ~doc \/ index >= Len(data.questions) THEN V
    ELSE IF IsEmptyBox(BoundingBoxOf(data.questions[index + 1]))
    THEN [V EXCEPT !.hasDiagram = FALSE, ![target] = Blank]
    ELSE [V EXCEPT !.hasDiagram = TRUE,
                   !.renders = @ \cup {[target |-> target, q |-> index,
                                        stage |-> "getPage"]}]

\* useEffect(..., [pdfDoc, currentIndex, quizData]): the inline canvas is
\* mounted (canvasRef.current is set) only when pdfDoc is loaded.
InlineEffect(V, index, data, doc) ==
    IF doc
    THEN renderPageOnCanvas([V EXCEPT !.diagramScale = 100], "canvas", index, data, doc)
    ELSE V

\* useEffect(..., [isLightboxOpen, pdfDoc, currentIndex]): the lightbox
\* canvas is mounted only while the lightbox is open.
LightboxEffect(V, open, index, data, doc) ==
    IF open
    THEN renderPageOnCanvas(V, "lightboxCanvas", index, data, doc)
    ELSE V

\* What the figure area of the diagram panel shows: the canvas block unless
\* it is hidden, the "Loading Diagram..." line, the "No Diagram Detected"
\* placeholder.
DiagramPanel ==
    {e \in {"canvas"} : pdfDoc /\ hasDiagram}
    \cup {e \in {"loading"} : ~pdfDoc}
    \cup {e \in {"noDiagram"} : ~hasDiagram /\ pdfDoc}

\* The view state after the effects of one commit.
Commit(V) ==
    /\ Cardinality(V.renders) <= MaxRenders
    /\ diagramScale' = V.diagramScale
    /\ hasDiagram' = V.hasDiagram
    /\ canvas' = V.canvas
    /\ lightboxCanvas' = V.lightboxCanvas
    /\ renders' = V.renders
    /\ UNCHANGED <<cropRect, rasterSize>>

\* QuizSection's render reads question.text: it throws when the current
\* index has no question.
RenderThrows(state, data, index) ==
    /\ state = QUIZ
    /\ data.kind = "object"
    /\ index >= Len(data.questions)

\* App renders QuizSection only while appState is QUIZ: the instance (and its
\* state) survives a QUIZ -> QUIZ update, a fresh one is mounted on entering
\* QUIZ and it is unmounted on leaving. Only a completed extraction enters
\* QUIZ, and it leaves pdfBase64 as it is.
\* (a timer effect without its cleanup)
QuizSectionLifecycleNoCleanup(old, new, data) ==
    IF old = QUIZ /\ new = QUIZ
    THEN /\ UNCHANGED <<navVars, pdfDoc, pdfLoading, isLightboxOpen, seconds>>
         /\ IF RenderThrows(new, data, currentIndex)
            THEN UNCHANGED <<diagramScale, hasDiagram, canvas, lightboxCanvas, renders, cropRect, rasterSize>>
            ELSE Commit(InlineEffect(View, currentIndex, data, pdfDoc))
         /\ UNCHANGED timer
    ELSE /\ QuizSectionMount(new = QUIZ /\ pdfBase64 # Null)
         /\ seconds' = IF new = QUIZ THEN 0 ELSE seconds
         /\ timer' = (timer \/ new = QUIZ)

\* The timer effect (dependencies []): setInterval when QuizSection mounts,
\* with seconds at 0, and clearInterval from its cleanup when it unmounts,
\* after which seconds is what the clock last showed. A render that throws
\* unmounts the whole tree, which runs the cleanup.
QuizSectionLifecycle(old, new, data) ==
    IF old = QUIZ /\ new = QUIZ
    THEN /\ UNCHANGED <<navVars, pdfDoc, pdfLoading, isLightboxOpen, seconds>>
         /\ IF RenderThrows(new, data, currentIndex)
            THEN /\ UNCHANGED <<diagramScale, hasDiagram, canvas, lightboxCanvas, renders, cropRect, rasterSize>>
                 /\ timer' = FALSE
            ELSE /\ Commit(InlineEffect(View, currentIndex, data, pdfDoc))
                 /\ UNCHANGED timer
    ELSE /\ QuizSectionMount(new = QUIZ /\ pdfBase64 # Null)
         /\ seconds' = IF new = QUIZ THEN 0 ELSE seconds
         /\ timer' = (new = QUIZ)

\* ResultSection's useState initial values: nothing expanded, no solution, no
\* request. This is also the state of no mounted instance.
ResultSectionUnmounted ==
    /\ expandedQuestion = 0
    /\ detailedSolutions = EmptyObject
    /\ loadingSolutions = EmptyObject
    /\ solveRequests = {}

\* App renders ResultSection only while appState is RESULTS and there is quiz
\* data: a fresh instance on entering, none after leaving. The setState calls
\* of a request that completes after the unmount have no effect.
ResultSectionLifecycle(old, new) ==
    IF old = RESULTS /\ new = RESULTS
    THEN UNCHANGED reportVars
    ELSE /\ expandedQuestion' = 0
         /\ detailedSolutions' = EmptyObject
         /\ loadingSolutions' = EmptyObject
         /\ solveRequests' = {}

\* App renders one UploadSection with isProcessing = false while appState is
\* UPLOAD and another with isProcessing = true while it is PROCESSING: each
\* is mounted with uploadProgress 0, and the progress effect of the second
\* sets 0 and starts its interval, which the cleanup clears on unmount.
UploadSectionLifecycle(old, new) ==
    uploadProgress' = IF old = PROCESSING /\ new = PROCESSING
                      THEN uploadProgress ELSE 0

totalQuestions == Len(quizData.questions)

\* quizData.questions[currentIndex] (0-based index into a 1-based sequence)
question == quizData.questions[currentIndex + 1]

QuizActive == appState = QUIZ /\ quizData.kind = "object" /\ ~crashed

\* ------------------------------------------------------------------ Init
Init ==
    /\ appState = UPLOAD
    /\ quizData = NullData
    /\ pdfBase64 = Null
    /\ userAnswers = EmptyObject
    /\ error = Null
    /\ readers = [f \in Files |-> 0]
    /\ inFlight = 0
    /\ crashed = FALSE
    /\ currentIndex = 0
    /\ answers = EmptyObject
    /\ markedForReview = {}
    /\ visited = {0}
    /\ diagramScale = 100
    /\ pdfDoc = FALSE
    /\ pdfLoading = FALSE
    /\ isLightboxOpen = FALSE
    /\ hasDiagram = FALSE
    /\ canvas = Blank
    /\ lightboxCanvas = Blank
    /\ renders = {}
    /\ cropRect = NoCrop
    /\ rasterSize = NoRaster
    /\ uploadProgress = 0
    /\ seconds = 0
    /\ timer = FALSE
    /\ ResultSectionUnmounted
    /\ lastOp = Op("init", "-")


\* ---------------------------------------------------------- UploadSection
Sum(bag) == bag["pdfA"] + bag["pdfB"]
Pending == Sum(readers) + inFlight

\* (a type test that alerts and reads the file all the same)
ProcessFileAlertOnly(f, isPdf, limit) ==
    /\ ~crashed
    /\ appState = UPLOAD
    /\ Pending < limit
    /\ readers' = [readers EXCEPT ![f] = @ + 1]
    /\ lastOp' = Op(IF isPdf THEN "processFile" ELSE "rejectFile", "-")
    /\ UNCHANGED <<uploadProgress, appVars, inFlight, crashed, navVars, viewVars, clockVars,
                   reportVars>>

\* processFile(file) from handleDrop / handleChange. The card takes input only
\* while App renders it with isProcessing = false (appState UPLOAD). A PDF
\* starts an asynchronous FileReader load; anything else is rejected by alert.
ProcessFile(f, isPdf, limit) ==
    /\ ~crashed
    /\ appState = UPLOAD
    /\ IF isPdf
       THEN /\ Pending < limit
            /\ readers' = [readers EXCEPT ![f] = @ + 1]
            /\ lastOp' = Op("processFile", "-")
       ELSE /\ UNCHANGED readers
            /\ lastOp' = Op("rejectFile", "-")
    /\ UNCHANGED <<uploadProgress, appVars, inFlight, crashed, navVars, viewVars, clockVars,
                   reportVars>>

\* ------------------------------------------------------------------- App
\* handleFileSelect up to its await: reader.onload hands the base64 text to
\* onFileSelect, which stores it, enters PROCESSING and calls parsePdfToQuiz.
\* The load event fires whatever the phase has become meanwhile.
HandleFileSelect(f) ==
    /\ ~crashed
    /\ readers[f] > 0
    /\ readers' = [readers EXCEPT ![f] = @ - 1]
    /\ pdfBase64' = f
    /\ appState' = PROCESSING
    /\ error' = Null
    /\ inFlight' = inFlight + 1
    /\ QuizSectionLifecycle(appState, PROCESSING, quizData)
    /\ ResultSectionLifecycle(appState, PROCESSING)
    /\ UploadSectionLifecycle(appState, PROCESSING)
    /\ lastOp' = Op("handleFileSelect", "-")
    /\ UNCHANGED <<quizData, userAnswers, crashed>>

\* (a check that forgets the length test)
WellFormedNoLength(data) ==
    /\ data.kind = "object"
    /\ data.hasQuestions

\* data && data.questions && data.questions.length > 0
WellFormed(data) ==
    /\ data.kind = "object"
    /\ data.hasQuestions
    /\ Len(data.questions) > 0

\* err.message || "Failed to process PDF. Please try again."
CatchMessage(message) == IF Truthy(message) THEN message ELSE FallbackMessage

\* (a catch block that forgets setAppState(UPLOAD))
ExtractionFailedKeepsPhase(message) ==
    /\ error' = CatchMessage(message)
    /\ UNCHANGED <<uploadProgress, appState, quizData, crashed, navVars, viewVars, clockVars,
                   reportVars>>

\* The catch block of handleFileSelect.
ExtractionFailed(message) ==
    /\ error' = CatchMessage(message)
    /\ appState' = UPLOAD
    /\ QuizSectionLifecycle(appState, UPLOAD, quizData)
    /\ ResultSectionLifecycle(appState, UPLOAD)
    /\ UploadSectionLifecycle(appState, UPLOAD)
    /\ UNCHANGED <<quizData, crashed>>

\* handleFileSelect after its await, parsePdfToQuiz having resolved with data.
ExtractionResolved(data) ==
    /\ ~crashed
    /\ inFlight > 0
    /\ inFlight' = inFlight - 1
    /\ IF WellFormed(data)
       THEN /\ quizData' = data
            /\ appState' = QUIZ
            /\ QuizSectionLifecycle(appState, QUIZ, data)
            /\ ResultSectionLifecycle(appState, QUIZ)
            /\ UploadSectionLifecycle(appState, QUIZ)
            /\ crashed' = RenderThrows(QUIZ, data, currentIndex')
            /\ lastOp' = Op("extractionSucceeded",
                            IF seconds > 0 THEN "clockRan" ELSE "-")
            /\ UNCHANGED error
       ELSE /\ ExtractionFailed(NoQuestionsMessage)
            /\ lastOp' = Op("extractionEmpty", "-")
    /\ UNCHANGED <<pdfBase64, userAnswers, readers>>

\* handleFileSelect after its await, parsePdfToQuiz having rejected.
ExtractionRejected(message) ==
    /\ ~crashed
    /\ inFlight > 0
    /\ inFlight' = inFlight - 1
    /\ ExtractionFailed(message)
    /\ lastOp' = Op("extractionRejected", "-")
    /\ UNCHANGED <<pdfBase64, userAnswers, readers>>

\* new Error("API_KEY is missing from environment variables.")
ApiKeyMissingMessage == "API_KEY is missing from environment variables."

\* (a call that goes to the service without testing for the key, and has the
\* service refuse it)
parsePdfToQuizNoKeyTest(apiKey) ==
    IF ~apiKey
    THEN {[sent |-> TRUE, kind |-> "rejected", data |-> NullData,
           message |-> "API key not valid."]}
    ELSE {[sent |-> TRUE, kind |-> "resolved", data |-> d, message |-> ""] :
              d \in ExtractionResults}
         \cup {[sent |-> TRUE, kind |-> "rejected", data |-> NullData,
                 message |-> m] : m \in ErrorMessages}

\* The outcomes of parsePdfToQuiz(base64Pdf): without process.env.API_KEY it
\* throws before the client is built and generateContent is called; with it
\* the request is sent and the call resolves with the parsed response or
\* rejects with the error of the service or of the parse.
parsePdfToQuiz(apiKey) ==
    IF ~apiKey
    THEN {[sent |-> FALSE, kind |-> "rejected", data |-> NullData,
           message |-> ApiKeyMissingMessage]}
    ELSE {[sent |-> TRUE, kind |-> "resolved", data |-> d, message |-> ""] :
              d \in ExtractionResults}
         \cup {[sent |-> TRUE, kind |-> "rejected", data |-> NullData,
                 message |-> m] : m \in ErrorMessages}

\* handleFileSelect after its await, in an environment with or without the
\* API key.
ExtractionSettles(apiKey) ==
    \E o \in parsePdfToQuiz(apiKey) :
        /\ o.kind = "resolved" => ExtractionResolved(o.data)
        /\ o.kind = "rejected" => ExtractionRejected(o.message)

\* handleQuizComplete(answers), bound to the Submit Test button.
HandleQuizComplete ==
    /\ QuizActive
    /\ userAnswers' = answers
    /\ appState' = RESULTS
    /\ QuizSectionLifecycle(appState, RESULTS, quizData)
    /\ ResultSectionLifecycle(appState, RESULTS)
    /\ UploadSectionLifecycle(appState, RESULTS)
    /\ lastOp' = Op("submit", "-")
    /\ UNCHANGED <<quizData, pdfBase64, error, asyncVars, crashed>>

\* (a retry that forgets the answer snapshot)
HandleRetryKeepsAnswers ==
    /\ ~crashed
    /\ appState # QUIZ
    /\ appState' = UPLOAD
    /\ quizData' = NullData
    /\ pdfBase64' = Null
    /\ error' = Null
    /\ QuizSectionLifecycle(appState, UPLOAD, quizData)
    /\ ResultSectionLifecycle(appState, UPLOAD)
    /\ UploadSectionLifecycle(appState, UPLOAD)
    /\ lastOp' = Op("retry", appState)
    /\ UNCHANGED <<userAnswers, asyncVars, crashed>>

\* handleRetry: the navbar logo (every phase but QUIZ), "Scan New" and the
\* report's retry button (RESULTS).
HandleRetry ==
    /\ ~crashed
    /\ appState # QUIZ
    /\ appState' = UPLOAD
    /\ quizData' = NullData
    /\ pdfBase64' = Null
    /\ userAnswers' = EmptyObject
    /\ error' = Null
    /\ QuizSectionLifecycle(appState, UPLOAD, quizData)
    /\ ResultSectionLifecycle(appState, UPLOAD)
    /\ UploadSectionLifecycle(appState, UPLOAD)
    /\ lastOp' = Op("retry", appState)
    /\ UNCHANGED <<asyncVars, crashed>>

\* ------------------------------------------- QuizSection: navigation
\* (a set rebuilt from the new index alone)
AddVisitedOnly(prev, index) == {index}

\* new Set(prev).add(index)
AddVisited(prev, index) == prev \cup {index}

\* The effects a commit runs when currentIndex may have changed.
IndexEffects(index) ==
    /\ UNCHANGED <<pdfDoc, pdfLoading, isLightboxOpen>>
    /\ IF index = currentIndex
       THEN UNCHANGED <<diagramScale, hasDiagram, canvas, lightboxCanvas, renders, cropRect, rasterSize>>
       ELSE Commit(LightboxEffect(InlineEffect(View, index, quizData, pdfDoc),
                                  isLightboxOpen, index, quizData, pdfDoc))

\* navigateTo(index), and the effects of the commit that follows
navigateTo(index) ==
    /\ visited' = AddVisited(visited, index)
    /\ currentIndex' = index
    /\ IndexEffects(index)

\* A call navigateTo(index) with any number: the function sets the index and
\* adds it to the visited set as given. With no question at the index the
\* render that follows throws on question.text and no effect runs.
NavigateCall(index) ==
    /\ QuizActive
    /\ IF index \in 0..(totalQuestions - 1)
       THEN navigateTo(index) /\ UNCHANGED crashed
       ELSE /\ visited' = AddVisited(visited, index)
            /\ currentIndex' = index
            /\ crashed' = TRUE
            /\ UNCHANGED viewVars
    /\ lastOp' = Op("navigateTo", "-")
    /\ UNCHANGED <<uploadProgress, appVars, asyncVars, clockVars, reportVars, answers, markedForReview>>

\* (an update that drops the spread of prev)
SetAnswerAlone(prev, qId, optionId) == [k \in {qId} |-> optionId]

\* { ...prev, [question.id]: optionId }
SetAnswer(prev, qId, optionId) ==
    [k \in DOMAIN prev \cup {qId} |-> IF k = qId THEN optionId ELSE prev[k]]

\* (a clear that stores an empty value instead of deleting the key)
DeleteAnswerBlank(prev, qId) ==
    [k \in DOMAIN prev \cup {qId} |-> IF k = qId THEN "" ELSE prev[k]]

\* const newAnswers = { ...prev }; delete newAnswers[question.id]
DeleteAnswer(prev, qId) == [k \in DOMAIN prev \ {qId} |-> prev[k]]

\* (an unmark that starts from an empty set instead of a copy)
ToggleMarkedClears(prev, qId) == IF qId \in prev THEN {} ELSE prev \cup {qId}

\* (a toggle that only ever adds)
ToggleMarkedAddOnly(prev, qId) == prev \cup {qId}

\* newSet.has(id) ? newSet.delete(id) : newSet.add(id)
ToggleMarked(prev, qId) ==
    IF qId \in prev THEN prev \ {qId} ELSE prev \cup {qId}

AnsweredTag(qId) == IF qId \in DOMAIN answers THEN "answered" ELSE "unanswered"

\* A palette button: onClick={() => navigateTo(idx)}
PaletteClick(idx) ==
    /\ QuizActive
    /\ idx \in 0..(totalQuestions - 1)
    /\ navigateTo(idx)
    /\ lastOp' = Op("navigateTo", IF canvas # Blank THEN "drawn" ELSE "blank")
    /\ UNCHANGED <<uploadProgress, appVars, asyncVars, crashed, clockVars, reportVars, answers, markedForReview>>

HandleOptionSelect(optionId) ==
    /\ QuizActive
    /\ answers' = SetAnswer(answers, question.id, optionId)
    /\ lastOp' = Op("selectOption", AnsweredTag(question.id))
    /\ UNCHANGED <<uploadProgress, appVars, asyncVars, crashed, clockVars, reportVars, currentIndex, markedForReview, visited, viewVars>>

\* (a clear that also takes the question off the review list)
HandleClearResponseUnmarks ==
    /\ QuizActive
    /\ answers' = DeleteAnswer(answers, question.id)
    /\ markedForReview' = markedForReview \ {question.id}
    /\ lastOp' = Op("clearResponse", AnsweredTag(question.id))
    /\ UNCHANGED <<uploadProgress, appVars, asyncVars, crashed, clockVars, reportVars, currentIndex, visited, viewVars>>

HandleClearResponse ==
    /\ QuizActive
    /\ answers' = DeleteAnswer(answers, question.id)
    /\ lastOp' = Op("clearResponse", AnsweredTag(question.id))
    /\ UNCHANGED <<uploadProgress, appVars, asyncVars, crashed, clockVars, reportVars, currentIndex, markedForReview, visited, viewVars>>

\* (a handler that leaves the mark of the last question alone)
HandleMarkForReviewSkipsLast ==
    /\ QuizActive
    /\ IF currentIndex < totalQuestions - 1
       THEN /\ markedForReview' = ToggleMarked(markedForReview, question.id)
            /\ navigateTo(currentIndex + 1)
       ELSE UNCHANGED <<markedForReview, currentIndex, visited, viewVars>>
    /\ lastOp' = [Op("toggleMark", "-") EXCEPT !.marked = markedForReview]
    /\ UNCHANGED <<uploadProgress, appVars, asyncVars, crashed, clockVars, reportVars, answers>>

\* handleMarkForReview; the history keeps the marked set it started from.
HandleMarkForReview ==
    /\ QuizActive
    /\ markedForReview' = ToggleMarked(markedForReview, question.id)
    /\ IF currentIndex < totalQuestions - 1
       THEN navigateTo(currentIndex + 1)
       ELSE UNCHANGED <<currentIndex, visited, viewVars>>
    /\ lastOp' = [Op("toggleMark", "-") EXCEPT !.marked = markedForReview]
    /\ UNCHANGED <<uploadProgress, appVars, asyncVars, crashed, clockVars, reportVars, answers>>

\* (a handler that wraps around from the last question to the first)
HandleSaveAndNextWraps ==
    /\ QuizActive
    /\ IF currentIndex < totalQuestions - 1
       THEN navigateTo(currentIndex + 1)
       ELSE navigateTo(0)
    /\ lastOp' = Op("saveAndNext", "-")
    /\ UNCHANGED <<uploadProgress, appVars, asyncVars, crashed, clockVars, reportVars, answers, markedForReview>>

HandleSaveAndNext ==
    /\ QuizActive
    /\ IF currentIndex < totalQuestions - 1
       THEN navigateTo(currentIndex + 1)
       ELSE UNCHANGED <<currentIndex, visited, viewVars>>
    /\ lastOp' = Op("saveAndNext", "-")
    /\ UNCHANGED <<uploadProgress, appVars, asyncVars, crashed, clockVars, reportVars, answers, markedForReview>>

\* (a status whose marked test comes before the combined one)
getQuestionStatusMarkedFirst(qIndex, qId) ==
    LET isAnswered == Truthy(Lookup(answers, qId))
        isMarked == qId \in markedForReview
        isVisited == qIndex \in visited
    IN  IF isMarked THEN "marked_for_review"
        ELSE IF isAnswered /\ isMarked THEN "answered_and_marked"
        ELSE IF isAnswered THEN "answered"
        ELSE IF isVisited THEN "not_answered"
        ELSE "not_visited"

getQuestionStatus(qIndex, qId) ==
    LET isAnswered == Truthy(Lookup(answers, qId))
        isMarked == qId \in markedForReview
        isVisited == qIndex \in visited
    IN  IF isAnswered /\ isMarked THEN "answered_and_marked"
        ELSE IF isMarked THEN "marked_for_review"
        ELSE IF isAnswered THEN "answered"
        ELSE IF isVisited THEN "not_answered"
        ELSE "not_visited"

\* --------------------------------------------- QuizSection: rendering
\* loadPdf after its await: getDocument resolved, setPdfDoc(doc); the commit
\* mounts the inline canvas and runs both render effects.
PdfLoaded ==
    /\ QuizActive
    /\ pdfLoading
    /\ pdfDoc' = TRUE
    /\ pdfLoading' = FALSE
    /\ Commit(LightboxEffect(InlineEffect(View, currentIndex, quizData, TRUE),
                             isLightboxOpen, currentIndex, quizData, TRUE))
    /\ lastOp' = Op("pdfLoaded", "-")
    /\ UNCHANGED <<uploadProgress, appVars, asyncVars, crashed, clockVars, reportVars, navVars, isLightboxOpen>>

\* loadPdf after its await: getDocument rejected, the error is logged.
PdfLoadFailed ==
    /\ QuizActive
    /\ pdfLoading
    /\ pdfLoading' = FALSE
    /\ lastOp' = Op("pdfLoadFailed", "-")
    /\ UNCHANGED <<uploadProgress, appVars, asyncVars, crashed, clockVars, reportVars, navVars, diagramScale, pdfDoc,
                   isLightboxOpen, hasDiagram, canvas, lightboxCanvas, renders,
                   cropRect, rasterSize>>

SetCanvas(target, content) ==
    /\ canvas' = IF target = "canvas" THEN content ELSE canvas
    /\ lightboxCanvas' = IF target = "lightboxCanvas" THEN content ELSE lightboxCanvas

\* Another page.render is drawing on the canvas of render t.
CanvasInUse(t) ==
    \E u \in renders : u # t /\ u.target = t.target /\ u.stage = "render"

Max(a, b) == IF a >= b THEN a ELSE b
Min(a, b) == IF a <= b THEN a ELSE b

\* const pad = 20
Pad == 20

\* (a crop whose origin is not clamped at 0)
CropRectUnclamped(bbox, vp) ==
    LET ymin == bbox[1]
        xmin == bbox[2]
        ymax == bbox[3]
        xmax == bbox[4]
        x == (xmin - Pad) * vp[1]
        y == (ymin - Pad) * vp[2]
    IN  [x |-> x, y |-> y,
         w |-> Min(1000 * vp[1] - x, ((xmax + Pad) - (xmin - Pad)) * vp[1]),
         h |-> Min(1000 * vp[2] - y, ((ymax + Pad) - (ymin - Pad)) * vp[2]),
         width |-> 1000 * vp[1], height |-> 1000 * vp[2]]

\* The crop rectangle x, y, w, h of bbox = [ymin, xmin, ymax, xmax] on a page
\* whose viewport is vp = <<width, height>> pixels. Every length is in
\* thousandths of a pixel, which keeps the division by 1000 exact.
CropRect(bbox, vp) ==
    LET ymin == bbox[1]
        xmin == bbox[2]
        ymax == bbox[3]
        xmax == bbox[4]
        x == Max(0, (xmin - Pad) * vp[1])
        y == Max(0, (ymin - Pad) * vp[2])
    IN  [x |-> x, y |-> y,
         w |-> Min(1000 * vp[1] - x, ((xmax + Pad) - (xmin - Pad)) * vp[1]),
         h |-> Min(1000 * vp[2] - y, ((ymax + Pad) - (ymin - Pad)) * vp[2]),
         width |-> 1000 * vp[1], height |-> 1000 * vp[2]]

\* The scaleMultiplier each render effect passes to renderPageOnCanvas, in
\* tenths: 1.0 for the inline canvas, 1.5 for the lightbox canvas.
ScaleMultiplier(target) == IF target = "canvas" THEN 10 ELSE 15

\* page.getViewport({ scale: 2.0 }) for a page of the given size in points:
\* renderPageOnCanvas does not use its scaleMultiplier parameter.
getViewport(page, scaleMultiplier) == <<2 * page[1], 2 * page[2]>>

\* renderPageOnCanvas after await pdfDoc.getPage, the page's viewport at scale
\* 2.0 being vp: the crop rectangle is computed, the canvas is resized to it
\* (which blanks it) and cleared, and page.render starts. pdf.js refuses a
\* render() on a canvas another render is still drawing on: that call
\* rejects and the catch block logs it. The call's closure holds the question
\* at index t.q of the quiz data it was rendered with, which is the present
\* quiz data: none is replaced while renders are followed.
GetPageResolved(t, vp) ==
    /\ QuizActive
    /\ t \in renders
    /\ t.stage = "getPage"
    /\ cropRect' = CropRect(BoundingBoxOf(quizData.questions[t.q + 1]), vp)
    /\ rasterSize' = [rasterSize EXCEPT ![t.target] = <<cropRect'.w, cropRect'.h>>]
    /\ SetCanvas(t.target, Blank)
    /\ renders' = IF CanvasInUse(t)
                  THEN renders \ {t}
                  ELSE (renders \ {t}) \cup {[t EXCEPT !.stage = "render"]}
    /\ lastOp' = Op("getPageResolved", "-")
    /\ UNCHANGED <<uploadProgress, appVars, asyncVars, crashed, clockVars, reportVars, navVars, diagramScale, pdfDoc,
                   pdfLoading, isLightboxOpen, hasDiagram>>

\* renderPageOnCanvas after await page.render(...).promise: the canvas now
\* shows the crop of the question the call was made for.
PageRenderResolved(t) ==
    /\ QuizActive
    /\ t \in renders
    /\ t.stage = "render"
    /\ SetCanvas(t.target, t.q)
    /\ renders' = renders \ {t}
    /\ lastOp' = Op("pageRenderResolved", "-")
    /\ UNCHANGED <<uploadProgress, appVars, asyncVars, crashed, clockVars, reportVars, navVars, diagramScale, pdfDoc,
                   pdfLoading, isLightboxOpen, hasDiagram, cropRect, rasterSize>>

\* (a render whose rejection is not caught: the error reaches React)
RenderRejectedUncaught(t) ==
    /\ QuizActive
    /\ t \in renders
    /\ renders' = renders \ {t}
    /\ crashed' = TRUE
    /\ lastOp' = Op("renderRejected", "-")
    /\ UNCHANGED <<uploadProgress, appVars, asyncVars, clockVars, reportVars, navVars, diagramScale,
                   pdfDoc, pdfLoading, isLightboxOpen, hasDiagram, canvas,
                   lightboxCanvas, cropRect, rasterSize>>

\* The catch block of renderPageOnCanvas: getPage or page.render rejected.
RenderRejected(t) ==
    /\ QuizActive
    /\ t \in renders
    /\ renders' = renders \ {t}
    /\ lastOp' = Op("renderRejected", "-")
    /\ UNCHANGED <<uploadProgress, appVars, asyncVars, crashed, clockVars, reportVars, navVars, diagramScale, pdfDoc,
                   pdfLoading, isLightboxOpen, hasDiagram, canvas, lightboxCanvas,
                   cropRect, rasterSize>>

\* The Fullscreen button, shown while hasDiagram: setIsLightboxOpen(true).
\* The commit mounts a new lightbox canvas and runs the lightbox effect.
OpenLightbox ==
    /\ QuizActive
    /\ hasDiagram
    /\ ~isLightboxOpen
    /\ isLightboxOpen' = TRUE
    /\ Commit(LightboxEffect([View EXCEPT !.lightboxCanvas = Blank], TRUE,
                             currentIndex, quizData, pdfDoc))
    /\ lastOp' = Op("openLightbox", "-")
    /\ UNCHANGED <<uploadProgress, appVars, asyncVars, crashed, clockVars, reportVars, navVars, pdfDoc, pdfLoading>>

\* The lightbox backdrop or its close button: setIsLightboxOpen(false). The
\* lightbox canvas is unmounted; renders still suspended for it draw on the
\* detached element, which nothing shows.
CloseLightbox ==
    /\ QuizActive
    /\ isLightboxOpen
    /\ isLightboxOpen' = FALSE
    /\ lightboxCanvas' = Blank
    /\ renders' = {t \in renders : t.target # "lightboxCanvas"}
    /\ rasterSize' = [rasterSize EXCEPT !.lightboxCanvas = <<0, 0>>]
    /\ lastOp' = Op("closeLightbox", "-")
    /\ UNCHANGED <<uploadProgress, appVars, asyncVars, crashed, clockVars, reportVars, navVars, diagramScale, pdfDoc,
                   pdfLoading, hasDiagram, canvas, cropRect>>

\* Diagram zoom handlers; the scale is kept in hundredths.
\* (a zoom-in that forgets the cap)
ZoomInUncapped(prev) == prev + 25

\* Math.min(prev + 0.25, 3.0)
ZoomIn(prev) == Min(prev + 25, 300)

\* Math.max(prev - 0.25, 0.5)
ZoomOut(prev) == Max(prev - 25, 50)

\* The zoom buttons are rendered whether or not a document is loaded.
HandleZoomIn ==
    /\ QuizActive
    /\ diagramScale' = ZoomIn(diagramScale)
    /\ lastOp' = Op("zoomIn", "-")
    /\ UNCHANGED <<uploadProgress, appVars, asyncVars, crashed, clockVars, reportVars, navVars, pdfDoc, pdfLoading,
                   isLightboxOpen, hasDiagram, canvas, lightboxCanvas, renders,
                   cropRect, rasterSize>>

HandleZoomOut ==
    /\ QuizActive
    /\ diagramScale' = ZoomOut(diagramScale)
    /\ lastOp' = Op("zoomOut", "-")
    /\ UNCHANGED <<uploadProgress, appVars, asyncVars, crashed, clockVars, reportVars, navVars, pdfDoc, pdfLoading,
                   isLightboxOpen, hasDiagram, canvas, lightboxCanvas, renders,
                   cropRect, rasterSize>>

HandleResetZoom ==
    /\ QuizActive
    /\ diagramScale' = 100
    /\ lastOp' = Op("resetZoom", "-")
    /\ UNCHANGED <<uploadProgress, appVars, asyncVars, crashed, clockVars, reportVars, navVars, pdfDoc, pdfLoading,
                   isLightboxOpen, hasDiagram, canvas, lightboxCanvas, renders,
                   cropRect, rasterSize>>

\* ------------------------------------------- UploadSection: progress
\* Progress is kept in tenths of a percent; the simulation stops at 95%.
ProgressCap == 950

\* Math.max(0.2, Math.random() * (remaining / 15)) with remaining = 95 - prev
\* and Math.random() in [0, 1): 0.2, or any larger step below remaining / 15.
Jumps(prev) ==
    {2} \cup {j \in 3..(ProgressCap \div 15) : 15 * j < ProgressCap - prev}

\* The updater passed to setUploadProgress by the interval callback.
ProgressAfterTick(prev, jump) ==
    IF prev >= ProgressCap THEN prev ELSE Min(ProgressCap, prev + jump)

\* One firing of the 600 ms interval of the progress effect, which runs
\* while the UploadSection of the PROCESSING phase is mounted.
ProgressTick ==
    /\ appState = PROCESSING
    /\ ~crashed
    /\ \E jump \in Jumps(uploadProgress) :
         uploadProgress' = ProgressAfterTick(uploadProgress, jump)
    /\ lastOp' = Op("progressTick", "-")
    /\ UNCHANGED <<appVars, asyncVars, crashed, navVars, viewVars, clockVars, reportVars>>

\* ------------------------------------------------- QuizSection: timer
\* One firing of the interval callback: setSeconds(s => s + 1). It fires only
\* while the interval is registered.
Tick ==
    /\ timer
    /\ seconds < MaxSeconds
    /\ seconds' = seconds + 1
    /\ lastOp' = Op("tick", "-")
    /\ UNCHANGED <<uploadProgress, appVars, asyncVars, crashed, navVars, viewVars, timer, reportVars>>

RenderTasks ==
    [target : {"canvas", "lightboxCanvas"}, q : 0..(MaxQuestions - 1),
     stage : {"getPage", "render"}]

\* ----------------------------------------------- ResultSection: scoring
\* (a loop body without the skipped branch)
ClassifyNoSkipped(q, snapshot) ==
    LET userAnswer == Lookup(snapshot, q.id)
    IN  IF userAnswer = q.correctOptionId THEN "correct" ELSE "incorrect"

\* One pass of the results loop over question q.
Classify(q, snapshot) ==
    LET userAnswer == Lookup(snapshot, q.id)
    IN  IF ~Truthy(userAnswer) THEN "skipped"
        ELSE IF userAnswer = q.correctOptionId THEN "correct"
        ELSE "incorrect"

\* The counters after the loop has passed the first n questions.
RECURSIVE CountResults(_, _, _)
CountResults(questions, snapshot, n) ==
    IF n = 0 THEN [correct |-> 0, incorrect |-> 0, skipped |-> 0]
    ELSE LET counted == CountResults(questions, snapshot, n - 1)
             class == Classify(questions[n], snapshot)
         IN  [counted EXCEPT ![class] = @ + 1]

\* results: { correct, incorrect, skipped, total }
results ==
    LET counted == CountResults(quizData.questions, userAnswers, totalQuestions)
    IN  [correct |-> counted.correct, incorrect |-> counted.incorrect,
         skipped |-> counted.skipped, total |-> totalQuestions]

\* ------------------------------------- ResultSection: detailed solutions
ReportActive == appState = RESULTS /\ quizData.kind = "object" /\ ~crashed

\* getDetailedSolution's catch block returns this text.
SolutionFallback == "Error generating solution. Please try again."

\* How a getDetailedSolution call can end: the model answers with text, it
\* answers with no text, the service call throws, or API_KEY is missing.
SolveOutcomes == {"text", "empty", "serviceError", "noApiKey"}

\* getDetailedSolution: the missing key throws before the try block, so the
\* promise rejects; inside the try block the empty response throws and every
\* throw is caught and answered with the fallback text.
getDetailedSolution(outcome) ==
    IF outcome = "noApiKey" THEN [rejected |-> TRUE, text |-> ""]
    ELSE IF outcome = "text" THEN [rejected |-> FALSE, text |-> "## Solution"]
    ELSE [rejected |-> FALSE, text |-> SolutionFallback]

\* { ...prev, [qId]: value }
SetEntry(prev, qId, value) ==
    [k \in DOMAIN prev \cup {qId} |-> IF k = qId THEN value ELSE prev[k]]

\* toggleExpand(id), from the header of a question's card.
ToggleExpand(id) ==
    /\ ReportActive
    /\ \E i \in 1..totalQuestions : quizData.questions[i].id = id
    /\ expandedQuestion' = IF expandedQuestion = id THEN 0 ELSE id
    /\ lastOp' = Op("toggleExpand", "-")
    /\ UNCHANGED <<uploadProgress, appVars, asyncVars, crashed, navVars, viewVars, clockVars,
                   detailedSolutions, loadingSolutions, solveRequests>>

\* loadingSolutions[q.id], as a condition
IsLoading(qId) == qId \in DOMAIN loadingSolutions /\ loadingSolutions[qId]

\* (a button that stays enabled while its request is loading)
SolveButtonNotDisabled(qId) ==
    /\ expandedQuestion = qId
    /\ ~Truthy(Lookup(detailedSolutions, qId))

\* The "Generate Full Solution" button of question qId is rendered in the
\* expanded card while no detailed solution is stored, and is disabled while
\* a request for the question is loading.
SolveButtonEnabled(qId) ==
    /\ expandedQuestion = qId
    /\ ~Truthy(Lookup(detailedSolutions, qId))
    /\ ~IsLoading(qId)

\* handleSolveWithAI up to its await: returns at once when a solution is
\* stored, else marks the question loading and calls getDetailedSolution.
HandleSolveWithAI(qId) ==
    /\ ReportActive
    /\ SolveButtonEnabled(qId)
    /\ IF Truthy(Lookup(detailedSolutions, qId))
       THEN UNCHANGED <<loadingSolutions, solveRequests>>
       ELSE /\ loadingSolutions' = SetEntry(loadingSolutions, qId, TRUE)
            /\ solveRequests' = solveRequests \cup {qId}
    /\ lastOp' = Op("solveWithAI", "-")
    /\ UNCHANGED <<uploadProgress, appVars, asyncVars, crashed, navVars, viewVars, clockVars,
                   expandedQuestion, detailedSolutions>>

\* (a handler that clears the loading flag after the await, not in finally)
SolutionSettledNoFinally(qId, outcome) ==
    /\ ReportActive
    /\ qId \in solveRequests
    /\ solveRequests' = solveRequests \ {qId}
    /\ IF getDetailedSolution(outcome).rejected
       THEN UNCHANGED <<detailedSolutions, loadingSolutions>>
       ELSE /\ detailedSolutions' =
                 SetEntry(detailedSolutions, qId, getDetailedSolution(outcome).text)
            /\ loadingSolutions' = SetEntry(loadingSolutions, qId, FALSE)
    /\ lastOp' = Op("solutionSettled", outcome)
    /\ UNCHANGED <<uploadProgress, appVars, asyncVars, crashed, navVars, viewVars, clockVars,
                   expandedQuestion>>

\* handleSolveWithAI after its await: a resolved call stores its text, a
\* rejected one is logged; finally the question stops loading.
SolutionSettled(qId, outcome) ==
    /\ ReportActive
    /\ qId \in solveRequests
    /\ solveRequests' = solveRequests \ {qId}
    /\ detailedSolutions' =
          IF getDetailedSolution(outcome).rejected THEN detailedSolutions
          ELSE SetEntry(detailedSolutions, qId, getDetailedSolution(outcome).text)
    /\ loadingSolutions' = SetEntry(loadingSolutions, qId, FALSE)
    /\ lastOp' = Op("solutionSettled", outcome)
    /\ UNCHANGED <<uploadProgress, appVars, asyncVars, crashed, navVars, viewVars, clockVars,
                   expandedQuestion>>

\* ---------------------------------------------------------- specification
\* The session under every interleaving: files picked while earlier reads and
\* extraction calls are still pending, retry at any moment, completions in
\* any order, navigation, marking and submission.
Next ==
    \/ \E f \in Files, isPdf \in BOOLEAN : ProcessFile(f, isPdf, MaxPending)
    \/ \E f \in Files : HandleFileSelect(f)
    \/ \E data \in ExtractionResults : ExtractionResolved(data)
    \/ \E m \in ErrorMessages : ExtractionRejected(m)
    \/ HandleQuizComplete
    \/ HandleRetry
    \/ \E idx \in 0..(MaxQuestions - 1) : PaletteClick(idx)
    \/ HandleMarkForReview
    \/ HandleSaveAndNext

Spec == Init /\ [][Next]_vars

\* The session of a user who picks a file only when no read or extraction
\* call is pending, with every operation of the navigation state machine.
SerialNext ==
    \/ \E f \in Files, isPdf \in BOOLEAN : ProcessFile(f, isPdf, 1)
    \/ \E f \in Files : HandleFileSelect(f)
    \/ \E data \in ExtractionResults : ExtractionResolved(data)
    \/ \E m \in ErrorMessages : ExtractionRejected(m)
    \/ HandleQuizComplete
    \/ HandleRetry
    \/ \E idx \in 0..(MaxQuestions - 1) : PaletteClick(idx)
    \/ \E o \in OptionIds : HandleOptionSelect(o)
    \/ HandleClearResponse
    \/ HandleMarkForReview
    \/ HandleSaveAndNext

SpecSerial == Init /\ [][SerialNext]_vars

\* One mounted QuizSection and its diagram panel: navigation between
\* questions while the document load and the page-crop renders complete or
\* fail in any order.
RenderInit ==
    /\ appState = QUIZ
    /\ quizData \in {d \in ExtractionResults : WellFormed(d)}
    /\ pdfBase64 = "pdfA"
    /\ userAnswers = EmptyObject
    /\ error = Null
    /\ readers = [f \in Files |-> 0]
    /\ inFlight = 0
    /\ crashed = FALSE
    /\ currentIndex = 0
    /\ answers = EmptyObject
    /\ markedForReview = {}
    /\ visited = {0}
    /\ diagramScale = 100
    /\ pdfDoc = FALSE
    /\ pdfLoading = TRUE
    /\ isLightboxOpen = FALSE
    /\ hasDiagram = FALSE
    /\ canvas = Blank
    /\ lightboxCanvas = Blank
    /\ renders = {}
    /\ cropRect = NoCrop
    /\ rasterSize = NoRaster
    /\ uploadProgress = 0
    /\ seconds = 0
    /\ timer = TRUE
    /\ ResultSectionUnmounted
    /\ lastOp = Op("extractionSucceeded", "-")

\* The viewport, at scale 2.0, of the pages of the document under view.
DocViewports == {<<1224, 1584>>}

RenderNext ==
    \/ \E idx \in 0..(MaxQuestions - 1) : PaletteClick(idx)
    \/ HandleSaveAndNext
    \/ PdfLoaded
    \/ PdfLoadFailed
    \/ \E t \in RenderTasks, vp \in DocViewports : GetPageResolved(t, vp)
    \/ \E t \in RenderTasks : PageRenderResolved(t)
    \/ \E t \in RenderTasks : RenderRejected(t)
    \/ OpenLightbox
    \/ CloseLightbox

SpecRender == RenderInit /\ [][RenderNext]_vars

\* The pages of the document under view are US Letter, 612 x 792 points.
DocPage == <<612, 792>>

\* The diagram panel and the lightbox over that document: each render gets
\* the viewport renderPageOnCanvas asks for with the multiplier of its effect.
LightboxNext ==
    \/ \E idx \in 0..(MaxQuestions - 1) : PaletteClick(idx)
    \/ PdfLoaded
    \/ \E t \in RenderTasks :
         GetPageResolved(t, getViewport(DocPage, ScaleMultiplier(t.target)))
    \/ \E t \in RenderTasks : PageRenderResolved(t)
    \/ OpenLightbox
    \/ CloseLightbox

SpecLightbox == RenderInit /\ [][LightboxNext]_vars

\* The same, when the document load, every getPage and every page.render
\* that pdf.js accepts succeed.
RenderOkNext ==
    \/ \E idx \in 0..(MaxQuestions - 1) : PaletteClick(idx)
    \/ HandleSaveAndNext
    \/ PdfLoaded
    \/ \E t \in RenderTasks, vp \in DocViewports : GetPageResolved(t, vp)
    \/ \E t \in RenderTasks : PageRenderResolved(t)
    \/ OpenLightbox
    \/ CloseLightbox

SpecRenderOk == RenderInit /\ [][RenderOkNext]_vars

\* The diagram panel over documents and bounding boxes of every shape: box
\* components below 0, inside and above 1000, inverted and degenerate boxes,
\* the all-zero box, no box and a box well inside the page, on pages of
\* several sizes.
Coords == {0 - CoordOver, 0, 10, 500, 1000, 1000 + CoordOver}
Boxes == (Coords \X Coords \X Coords \X Coords) \cup {<<>>, <<100, 100, 300, 400>>}
Viewports == {<<1224, 1584>>, <<1, 1>>, <<1684, 1191>>, <<2000, 2828>>}

CropQuiz(b) ==
    QuizObject("Mock Test", TRUE,
               <<[id |-> 1, correctOptionId |-> "A", boundingBox |-> b,
                  pageNumber |-> 1],
                 Question(2, "figures")>>)

CropInit ==
    /\ appState = QUIZ
    /\ quizData \in {CropQuiz(b) : b \in Boxes}
    /\ pdfBase64 = "pdfA"
    /\ userAnswers = EmptyObject
    /\ error = Null
    /\ readers = [f \in Files |-> 0]
    /\ inFlight = 0
    /\ crashed = FALSE
    /\ currentIndex = 0
    /\ answers = EmptyObject
    /\ markedForReview = {}
    /\ visited = {0}
    /\ diagramScale = 100
    /\ pdfDoc = FALSE
    /\ pdfLoading = TRUE
    /\ isLightboxOpen = FALSE
    /\ hasDiagram = FALSE
    /\ canvas = Blank
    /\ lightboxCanvas = Blank
    /\ renders = {}
    /\ cropRect = NoCrop
    /\ rasterSize = NoRaster
    /\ uploadProgress = 0
    /\ seconds = 0
    /\ timer = TRUE
    /\ ResultSectionUnmounted
    /\ lastOp = Op("extractionSucceeded", "-")

CropNext ==
    \/ \E idx \in 0..1 : PaletteClick(idx)
    \/ PdfLoaded
    \/ \E t \in RenderTasks, vp \in Viewports : GetPageResolved(t, vp)
    \/ \E t \in RenderTasks : PageRenderResolved(t)

SpecCrop == CropInit /\ [][CropNext]_vars

\* The session of a user who picks one file at a time and then looks at the
\* diagrams: navigation and zoom while the document and the crops load.
ZoomNext ==
    \/ \E f \in Files, isPdf \in BOOLEAN : ProcessFile(f, isPdf, 1)
    \/ \E f \in Files : HandleFileSelect(f)
    \/ \E data \in ExtractionResults : ExtractionResolved(data)
    \/ \E m \in ErrorMessages : ExtractionRejected(m)
    \/ HandleQuizComplete
    \/ HandleRetry
    \/ \E idx \in 0..(MaxQuestions - 1) : PaletteClick(idx)
    \/ HandleZoomIn
    \/ HandleZoomOut
    \/ HandleResetZoom
    \/ PdfLoaded
    \/ PdfLoadFailed
    \/ \E t \in RenderTasks, vp \in DocViewports : GetPageResolved(t, vp)
    \/ \E t \in RenderTasks : PageRenderResolved(t)

SpecZoom == Init /\ [][ZoomNext]_vars

\* The session of a user who picks one file at a time, submits and reads the
\* report, asking for detailed solutions.
ReportNext ==
    \/ \E f \in Files, isPdf \in BOOLEAN : ProcessFile(f, isPdf, 1)
    \/ \E f \in Files : HandleFileSelect(f)
    \/ \E data \in ExtractionResults : ExtractionResolved(data)
    \/ HandleQuizComplete
    \/ HandleRetry
    \/ \E id \in QuestionIds : ToggleExpand(id)
    \/ \E id \in QuestionIds : HandleSolveWithAI(id)
    \/ \E id \in QuestionIds, outcome \in SolveOutcomes : SolutionSettled(id, outcome)

SpecReport == Init /\ [][ReportNext]_vars

\* The session's phases under every interleaving, when every extraction call
\* completes: parsePdfToQuiz awaits one generateContent call and then
\* returns or throws.
ExtractionCompletes ==
    \/ \E data \in ExtractionResults : ExtractionResolved(data)
    \/ \E m \in ErrorMessages : ExtractionRejected(m)

LiveNext ==
    \/ \E f \in Files, isPdf \in BOOLEAN : ProcessFile(f, isPdf, MaxPending)
    \/ \E f \in Files : HandleFileSelect(f)
    \/ ExtractionCompletes
    \/ HandleQuizComplete
    \/ HandleRetry

SpecLive == Init /\ [][LiveNext]_vars /\ WF_vars(ExtractionCompletes)

\* navigateTo applied to indices inside and outside the quiz, in a mounted
\* QuizSection whose document and crops load.
NavigateNext ==
    \/ \E index \in (0 - 1)..MaxQuestions : NavigateCall(index)
    \/ HandleSaveAndNext
    \/ PdfLoaded
    \/ \E t \in RenderTasks, vp \in DocViewports : GetPageResolved(t, vp)
    \/ \E t \in RenderTasks : PageRenderResolved(t)

SpecNavigate == RenderInit /\ [][NavigateNext]_vars

\* One mounted QuizSection with every handler of the question panel, the
\* diagram toolbar and the lightbox, the quiz clock and the document load;
\* the page renders it starts stay suspended.
QuizNext ==
    \/ \E idx \in 0..(MaxQuestions - 1) : PaletteClick(idx)
    \/ \E o \in OptionIds : HandleOptionSelect(o)
    \/ HandleClearResponse
    \/ HandleMarkForReview
    \/ HandleSaveAndNext
    \/ HandleZoomIn
    \/ HandleZoomOut
    \/ HandleResetZoom
    \/ OpenLightbox
    \/ CloseLightbox
    \/ Tick
    \/ PdfLoaded

\* The quiz of that section has two questions, the first with a figure.
QuizInit ==
    /\ RenderInit
    /\ quizData = QuizObject("Mock Test", TRUE, Questions(2, "figures"))

SpecQuiz == QuizInit /\ [][QuizNext]_vars

\* A two-question quiz answered, submitted and read in the report, when
\* every solution request completes: getDetailedSolution awaits one
\* generateContent call and then returns or throws.
SolutionSettles(id) == \E outcome \in SolveOutcomes : SolutionSettled(id, outcome)

SolveNext ==
    \/ \E o \in OptionIds : HandleOptionSelect(o)
    \/ HandleQuizComplete
    \/ HandleRetry
    \/ \E id \in QuestionIds : ToggleExpand(id)
    \/ \E id \in QuestionIds : HandleSolveWithAI(id)
    \/ \E id \in QuestionIds : SolutionSettles(id)

SpecSolve ==
    /\ QuizInit
    /\ [][SolveNext]_vars
    /\ \A id \in QuestionIds : WF_vars(SolutionSettles(id))

\* The upload screen: files picked one at a time, the extraction completing
\* or failing, the logo clicked, and the progress ring of the PROCESSING
\* phase advancing.
UploadNext ==
    \/ \E f \in Files, isPdf \in BOOLEAN : ProcessFile(f, isPdf, 1)
    \/ \E f \in Files : HandleFileSelect(f)
    \/ \E data \in ExtractionResults : ExtractionResolved(data)
    \/ \E m \in ErrorMessages : ExtractionRejected(m)
    \/ HandleRetry
    \/ ProgressTick

SpecUpload == Init /\ [][UploadNext]_vars

\* The upload screen of a deployment without API_KEY.
NoKeyNext ==
    \/ \E f \in Files, isPdf \in BOOLEAN : ProcessFile(f, isPdf, MaxPending)
    \/ \E f \in Files : HandleFileSelect(f)
    \/ ExtractionSettles(FALSE)
    \/ HandleRetry
    \/ ProgressTick

SpecNoKey == Init /\ [][NoKeyNext]_vars

\* The session of a user who takes one quiz after another, answering and
\* marking the questions in order while the clock runs.
RetakeNext ==
    \/ \E f \in Files, isPdf \in BOOLEAN : ProcessFile(f, isPdf, 1)
    \/ \E f \in Files : HandleFileSelect(f)
    \/ \E data \in ExtractionResults : ExtractionResolved(data)
    \/ HandleQuizComplete
    \/ HandleRetry
    \/ \E o \in OptionIds : HandleOptionSelect(o)
    \/ HandleMarkForReview
    \/ Tick

SpecRetake == Init /\ [][RetakeNext]_vars

\* The session under every interleaving, with the quiz clock.
TimerNext ==
    \/ \E f \in Files, isPdf \in BOOLEAN : ProcessFile(f, isPdf, MaxPending)
    \/ \E f \in Files : HandleFileSelect(f)
    \/ \E data \in ExtractionResults : ExtractionResolved(data)
    \/ \E m \in ErrorMessages : ExtractionRejected(m)
    \/ HandleQuizComplete
    \/ HandleRetry
    \/ \E idx \in 0..(MaxQuestions - 1) : PaletteClick(idx)
    \/ Tick

SpecTimer == Init /\ [][TimerNext]_vars

\* ================================================================ claims
AllowedEdges ==
    {<<UPLOAD, PROCESSING>>, <<PROCESSING, QUIZ>>, <<PROCESSING, UPLOAD>>,
     <<QUIZ, RESULTS>>, <<RESULTS, UPLOAD>>}

\* C1: every change of the application phase is one of the edges
\* Upload->Processing, Processing->Quiz, Processing->Upload, Quiz->Results,
\* Results->Upload, and the phase is never ERROR.
C1_OnlySpecifiedEdges ==
    [][appState' # appState =>
         (<<appState, appState'>> \in AllowedEdges /\ appState' # ERROR)]_vars

\* C2: at no reachable state are two extraction calls in flight.
C2_AtMostOneExtraction == inFlight <= 1

\* C3: once every render in flight has completed, each canvas that is shown
\* holds the crop of the currently selected question, whatever the order in
\* which the renders completed.
C3_LastRequestedShown ==
    (pdfDoc /\ renders = {}) =>
        /\ hasDiagram => canvas = currentIndex
        /\ (hasDiagram /\ isLightboxOpen) => lightboxCanvas = currentIndex

\* "at least one question", as the claim words it
HasAQuestion(data) ==
    /\ data.kind = "object"
    /\ data.hasQuestions
    /\ Len(data.questions) >= 1

ToUploadWithError ==
    /\ appState' = UPLOAD
    /\ error' \notin {Null, Undefined, ""}
    /\ quizData' = quizData

\* C4: an extraction call that rejects, or resolves without a question, takes
\* the session to Upload with a non-empty error and leaves quiz data alone;
\* one that resolves with at least one question, titled or not, takes it to
\* Quiz with that result as quiz data.
C4_ExtractionOutcome ==
    [][/\ \A m \in ErrorMessages : ExtractionRejected(m) => ToUploadWithError
       /\ \A data \in ExtractionResults :
            ExtractionResolved(data) =>
                IF HasAQuestion(data)
                THEN appState' = QUIZ /\ quizData' = data
                ELSE ToUploadWithError]_vars

C4_Witness ==
    /\ lastOp.op = "extractionEmpty"
    /\ appState = UPLOAD
    /\ error = NoQuestionsMessage
    /\ quizData = NullData

\* C5: immediately after retry the phase is Upload, quiz data and PDF bytes
\* are null, the answer snapshot is empty and the error is null.
C5_RetryResets ==
    lastOp.op = "retry" =>
        /\ appState = UPLOAD
        /\ quizData = NullData
        /\ pdfBase64 = Null
        /\ userAnswers = EmptyObject
        /\ DOMAIN userAnswers = {}
        /\ error = Null

C5_Witness == lastOp = Op("retry", RESULTS) /\ appState = UPLOAD

\* C6: in every Quiz state the current index is within [0, questionCount-1].
C6_IndexInRange ==
    appState = QUIZ =>
        /\ quizData.kind = "object"
        /\ currentIndex \in 0..(Len(quizData.questions) - 1)

\* The status shown for the question at index i of the current quiz.
StatusAt(i) == getQuestionStatus(i, quizData.questions[i + 1].id)

\* C7: during a quiz index 0 is visited, every operation leaves the visited
\* set a superset of what it was, and no question returns to not_visited.
C7_VisitedGrows ==
    /\ [](appState = QUIZ => 0 \in visited)
    /\ [][(appState = QUIZ /\ appState' = QUIZ) =>
            /\ visited \subseteq visited'
            /\ \A i \in 0..(Len(quizData.questions) - 1) :
                 StatusAt(i) # "not_visited" => StatusAt(i)' # "not_visited"]_vars

C7_Witness ==
    /\ appState = QUIZ
    /\ visited = {0, 2}
    /\ currentIndex = 0
    /\ lastOp.op = "navigateTo"

StatusNames ==
    {"not_visited", "not_answered", "answered", "marked_for_review",
     "answered_and_marked"}

StatusInputs(i, id) ==
    <<id \in DOMAIN answers, id \in markedForReview, i \in visited>>

Pairs == (0..(MaxQuestions - 1)) \X QuestionIds

\* C8: the status of (index, id) is one of the five names, is determined by
\* (id answered, id marked, index visited), is answered_and_marked exactly
\* when the id is answered and marked, and is not_visited only when the index
\* is unvisited and the id neither answered nor marked.
C8_StatusDerivation ==
    \A p \in Pairs :
        LET st == getQuestionStatus(p[1], p[2])
        IN  /\ st \in StatusNames
            /\ st = "answered_and_marked"
                 <=> (p[2] \in DOMAIN answers /\ p[2] \in markedForReview)
            /\ st = "not_visited"
                 => (p[1] \notin visited /\ p[2] \notin DOMAIN answers
                     /\ p[2] \notin markedForReview)
            /\ \A r \in Pairs :
                 StatusInputs(p[1], p[2]) = StatusInputs(r[1], r[2])
                    => st = getQuestionStatus(r[1], r[2])

C8_Witness ==
    /\ appState = QUIZ
    /\ \E i \in 0..(Len(quizData.questions) - 1) :
         StatusAt(i) = "answered_and_marked"
    /\ \E i \in 0..(Len(quizData.questions) - 1) : StatusAt(i) = "not_visited"

\* C9: selectOption(optionId) makes optionId the current question's entry,
\* whatever it was, and leaves every other entry as it was.
C9_SelectOption ==
    [][\A o \in OptionIds :
         HandleOptionSelect(o) =>
            /\ question.id \in DOMAIN answers'
            /\ answers'[question.id] = o
            /\ \A k \in QuestionIds \ {question.id} :
                 /\ k \in DOMAIN answers' <=> k \in DOMAIN answers
                 /\ k \in DOMAIN answers => answers'[k] = answers[k]]_vars

C9_Witness ==
    /\ lastOp = Op("selectOption", "answered")
    /\ Cardinality(DOMAIN answers) >= 2

\* C10: after clearResponse the current question's id is no key of the answer
\* map and scoring classifies the question as skipped, as it does a question
\* never answered; and answering an unanswered question and then clearing
\* it gives back the answer map there was.
C10_ClearResponse ==
    /\ [][HandleClearResponse =>
            /\ question.id \notin DOMAIN answers'
            /\ Classify(question, answers') = "skipped"
            /\ Classify(question, answers') = Classify(question, EmptyObject)
            /\ \A k \in DOMAIN answers \ {question.id} :
                 k \in DOMAIN answers' /\ answers'[k] = answers[k]]_vars
    /\ []((QuizActive /\ question.id \notin DOMAIN answers) =>
            \A o \in OptionIds :
              DeleteAnswer(SetAnswer(answers, question.id, o), question.id)
                 = answers)

C10_Witness ==
    /\ lastOp = Op("clearResponse", "answered")
    /\ appState = QUIZ
    /\ question.id \notin DOMAIN answers
    /\ answers # EmptyObject

\* C11: toggleMarkForReview flips the membership, in the marked set, of the id
\* of the question that is current when it is invoked and of no other id;
\* then, below the last question, the next index becomes current and visited.
C11_ToggleThenAdvance ==
    [][HandleMarkForReview =>
         /\ question.id \in markedForReview' <=> question.id \notin markedForReview
         /\ \A k \in QuestionIds \ {question.id} :
              k \in markedForReview' <=> k \in markedForReview
         /\ currentIndex < totalQuestions - 1 =>
              /\ currentIndex' = currentIndex + 1
              /\ currentIndex + 1 \in visited']_vars

C11_Witness ==
    /\ appState = QUIZ
    /\ lastOp.op = "toggleMark"
    /\ currentIndex = 1
    /\ 1 \in visited
    /\ quizData.questions[1].id \notin markedForReview
    /\ quizData.questions[1].id \in lastOp.marked
    /\ quizData.questions[2].id \notin markedForReview

\* C12 (as claimed): after two toggleMarkForReview invocations in a row the
\* marked set is the marked set there was before the first.
C12_DoubleToggle ==
    [][(lastOp.op = "toggleMark" /\ HandleMarkForReview) =>
          markedForReview' = lastOp.marked]_vars

\* The ids whose membership differs between two marked sets.
Flipped(before, after) == (before \ after) \cup (after \ before)

\* C12 (amended): toggling the mark of one question twice gives back the
\* marked set there was: two invocations in a row that act on the same
\* question (which happens on the last question only) restore the marked set
\* of before the first, and in every quiz state flipping any id twice, as on
\* coming back to a question, restores the marked set.
C12_DoubleToggleSameQuestion ==
    /\ [][(/\ lastOp.op = "toggleMark"
           /\ HandleMarkForReview
           /\ Flipped(lastOp.marked, markedForReview) = {question.id}) =>
             markedForReview' = lastOp.marked]_vars
    /\ [](QuizActive =>
            \A id \in QuestionIds :
              ToggleMarked(ToggleMarked(markedForReview, id), id) = markedForReview)

C12_Witness ==
    /\ appState = QUIZ
    /\ lastOp.op = "toggleMark"
    /\ totalQuestions >= 2
    /\ currentIndex = totalQuestions - 1
    /\ lastOp.marked = {quizData.questions[1].id, question.id}
    /\ markedForReview = {quizData.questions[1].id}

\* C13: toggleMarkForReview on the last question leaves the current index at
\* questionCount-1 and still flips the mark of the last question.
C13_ToggleOnLast ==
    [][(HandleMarkForReview /\ currentIndex = totalQuestions - 1) =>
         /\ currentIndex' = totalQuestions - 1
         /\ visited' = visited
         /\ question.id \in markedForReview' <=> question.id \notin markedForReview]_vars

C13_Witness ==
    /\ appState = QUIZ
    /\ lastOp.op = "toggleMark"
    /\ totalQuestions >= 2
    /\ currentIndex = totalQuestions - 1
    /\ question.id \in markedForReview
    /\ question.id \notin lastOp.marked

\* C14: saveAndNext below the last question advances the current index by
\* one and marks the new index visited; on the last question it changes
\* nothing; either way the answer map and the marked set stay as they were.
C14_SaveAndNext ==
    [][HandleSaveAndNext =>
         /\ answers' = answers
         /\ markedForReview' = markedForReview
         /\ IF currentIndex < totalQuestions - 1
            THEN /\ currentIndex' = currentIndex + 1
                 /\ visited' = visited \cup {currentIndex + 1}
            ELSE UNCHANGED <<appVars, navVars, viewVars, clockVars>>]_vars

C14_Witness ==
    /\ appState = QUIZ
    /\ lastOp.op = "saveAndNext"
    /\ currentIndex = 1
    /\ visited = {0, 1}
    /\ answers # EmptyObject
    /\ markedForReview # {}

\* C15: submit is enabled in every Quiz state; it moves the session to
\* Results with an answer snapshot equal to the answer map of that moment, in
\* which unanswered questions have no key; and the snapshot does not change
\* while the session stays in Results.
C15_Submit ==
    /\ [](appState = QUIZ => ENABLED HandleQuizComplete)
    /\ [][HandleQuizComplete =>
            /\ appState' = RESULTS
            /\ userAnswers' = answers
            /\ \A i \in 1..totalQuestions :
                 quizData.questions[i].id \notin DOMAIN answers
                    => quizData.questions[i].id \notin DOMAIN userAnswers']_vars
    /\ [][(appState = RESULTS /\ appState' = RESULTS) =>
            userAnswers' = userAnswers]_vars

\* C16: the crop rectangle computed with padding 20 for any bounding box that
\* is not all-zero, components outside [0, 1000] included, on a page of any
\* size, has 0 <= x, 0 <= y, x + width <= pageWidthPx and
\* y + height <= pageHeightPx.
C16_CropWithinPage ==
    /\ 0 <= cropRect.x
    /\ 0 <= cropRect.y
    /\ cropRect.x + cropRect.w <= cropRect.width
    /\ cropRect.y + cropRect.h <= cropRect.height

\* A crop of a box that reaches beyond the page on both sides of both axes:
\* the origin is clamped at 0 and the extent at the page's.
C16_Witness ==
    /\ lastOp.op = "getPageResolved"
    /\ quizData.questions[1].boundingBox
          = <<0 - CoordOver, 0 - CoordOver, 1000 + CoordOver, 1000 + CoordOver>>
    /\ cropRect = [x |-> 0, y |-> 0, w |-> 1684000, h |-> 1191000,
                   width |-> 1684000, height |-> 1191000]

\* The question a render was started for.
RenderedQuestion(t) == quizData.questions[t.q + 1]

\* C17: for a question whose bounding box is all-zero or absent the render
\* reports no diagram and no page is loaded or rendered for it; for every
\* other bounding box it reports a diagram.
C17_NoDiagramIffEmptyBox ==
    /\ [](pdfDoc =>
            (hasDiagram <=>
               (question.boundingBox # <<>> /\ question.boundingBox # NoBox)))
    /\ [](\A t \in renders :
            /\ RenderedQuestion(t).boundingBox # <<>>
            /\ RenderedQuestion(t).boundingBox # NoBox)
    /\ [][(currentIndex' # currentIndex \/ pdfDoc' # pdfDoc) =>
            \/ ~pdfDoc'
            \/ IF question'.boundingBox \in {<<>>, NoBox}
               THEN renders' \subseteq renders
               ELSE \E t \in renders' :
                      t.q = currentIndex' /\ t.stage = "getPage"]_vars

C17_Witness ==
    /\ pdfDoc
    /\ currentIndex = 1
    /\ ~hasDiagram
    /\ canvas = Blank
    /\ lastOp.op = "navigateTo"
    /\ quizData.questions[1].boundingBox = <<0, 0, 0, 10>>

\* C18: the zoom factor is always a multiple of 0.25 within [0.5, 3.0]; it is
\* 1.0 when a quiz starts, zoom-in adds 0.25 up to 3.0 and zoom-out subtracts
\* 0.25 down to 0.5. (The factor is held in hundredths.)
C18_ZoomRange ==
    /\ [](diagramScale % 25 = 0 /\ 50 <= diagramScale /\ diagramScale <= 300)
    /\ [][(appState # QUIZ /\ appState' = QUIZ) => diagramScale' = 100]_vars
    /\ [][HandleZoomIn =>
            diagramScale' = (IF diagramScale + 25 > 300 THEN 300
                             ELSE diagramScale + 25)]_vars
    /\ [][HandleZoomOut =>
            diagramScale' = (IF diagramScale - 25 < 50 THEN 50
                             ELSE diagramScale - 25)]_vars
    /\ [][HandleResetZoom => diagramScale' = 100]_vars

C18_Witness ==
    /\ appState = QUIZ
    /\ lastOp.op = "zoomIn"
    /\ diagramScale = 300
    /\ currentIndex = 1

\* C19: whenever the current question changes during a quiz the zoom factor
\* is 1.0 afterwards, also while the document is loading or failed to load.
C19_ZoomResetOnQuestionChange ==
    [][(appState = QUIZ /\ appState' = QUIZ /\ currentIndex' # currentIndex) =>
          diagramScale' = 100]_vars

\* C20: the quiz clock starts from 0 when the session enters Quiz, each tick
\* adds 1, ticks fire only in the Quiz phase, and outside Quiz the interval
\* is cleared, so that no tick can fire.
C20_TimerOnlyInQuiz ==
    /\ [][(appState # QUIZ /\ appState' = QUIZ) => (seconds' = 0 /\ timer')]_vars
    /\ [][Tick => (appState = QUIZ /\ seconds' = seconds + 1)]_vars
    /\ [][seconds' # seconds => (seconds' = seconds + 1 \/ seconds' = 0)]_vars
    /\ [](appState # QUIZ => (~timer /\ ~ENABLED Tick))

C20_Witness ==
    /\ appState = RESULTS
    /\ lastOp.op = "submit"
    /\ seconds = 1
    /\ ~timer

\* C21: a detailed-solution generation that failed (service error or empty
\* response) shows the fallback text inline for that question, and the user
\* can then trigger generation for the same question again, which issues a
\* new request.
C21_SolutionRetryable ==
    /\ [][\A id \in QuestionIds :
            (SolutionSettled(id, "empty") \/ SolutionSettled(id, "serviceError"))
               => Lookup(detailedSolutions', id) = SolutionFallback]_vars
    /\ [](\A id \in QuestionIds :
            (/\ ReportActive
             /\ expandedQuestion = id
             /\ Lookup(detailedSolutions, id) = SolutionFallback)
               => ENABLED HandleSolveWithAI(id))
    /\ [][\A id \in QuestionIds :
            (HandleSolveWithAI(id)
               /\ Lookup(detailedSolutions, id) = SolutionFallback)
               => id \in solveRequests']_vars

\* A failure of the document load, of a page load or of a crop render.
RenderingFailure ==
    \/ PdfLoadFailed
    \/ \E t \in RenderTasks : RenderRejected(t)
    \/ \E t \in RenderTasks, vp \in DocViewports :
         GetPageResolved(t, vp) /\ CanvasInUse(t)

\* C22: a failure of the document load, of a page load or of a crop render
\* during a quiz changes neither the phase nor the current index, visited
\* set, answer map or marked set, and the quiz stays operable: the palette,
\* the options, clear, mark, save-and-next and submit remain available.
C22_RenderFailureHarmless ==
    /\ [][RenderingFailure =>
            /\ appState' = appState
            /\ UNCHANGED <<currentIndex, visited, answers, markedForReview>>
            /\ QuizActive']_vars
    /\ [](QuizActive =>
            /\ ENABLED HandleQuizComplete
            /\ ENABLED HandleClearResponse
            /\ \A o \in OptionIds : ENABLED HandleOptionSelect(o)
            /\ ENABLED PaletteClick(currentIndex))

C22_Witness ==
    /\ appState = QUIZ
    /\ lastOp.op = "renderRejected"
    /\ currentIndex = 2
    /\ visited = {0, 2}
    /\ pdfDoc
    /\ ~crashed

\* C23: while the session is in Quiz or Results the quiz data does not
\* change, whatever the interleaving of user actions and extraction
\* completions, except that retry discards it; and it is set only by an
\* extraction that succeeded.
C23_QuizDataSetOnce ==
    /\ [][(appState \in {QUIZ, RESULTS} /\ quizData' # quizData) =>
            (HandleRetry /\ quizData' = NullData)]_vars
    /\ [][(quizData' # quizData /\ quizData' # NullData) =>
            \E data \in ExtractionResults :
               WellFormed(data) /\ ExtractionResolved(data) /\ quizData' = data]_vars

\* The indices of the questions of the report that scoring puts in class c.
InClass(c) ==
    {i \in 1..totalQuestions : Classify(quizData.questions[i], userAnswers) = c}

\* C24: in every report each question is in exactly one of correct,
\* incorrect, skipped, and the three counts sum to the number of questions; a
\* question is skipped exactly when its id is no key of the snapshot, correct
\* when its entry equals correctOptionId, incorrect otherwise; and marking a
\* question for review gives it no entry.
C24_Scoring ==
    /\ [](ReportActive =>
            /\ results.total = totalQuestions
            /\ results.correct + results.incorrect + results.skipped = totalQuestions
            /\ results.correct = Cardinality(InClass("correct"))
            /\ results.incorrect = Cardinality(InClass("incorrect"))
            /\ results.skipped = Cardinality(InClass("skipped"))
            /\ \A i \in 1..totalQuestions :
                 LET q == quizData.questions[i]
                 IN  /\ i \in InClass("skipped") <=> q.id \notin DOMAIN userAnswers
                     /\ i \in InClass("correct") <=>
                          (q.id \in DOMAIN userAnswers
                             /\ userAnswers[q.id] = q.correctOptionId)
                     /\ i \in InClass("incorrect") <=>
                          (q.id \in DOMAIN userAnswers
                             /\ userAnswers[q.id] # q.correctOptionId))
    /\ [][HandleMarkForReview => answers' = answers]_vars

\* Three questions, the first answered, the others not: 1 + 0 + 2 = 3.
C24_Witness ==
    /\ ReportActive
    /\ lastOp.op = "submit"
    /\ totalQuestions = 3
    /\ DOMAIN userAnswers = {quizData.questions[1].id}
    /\ results = [correct |-> 1, incorrect |-> 0, skipped |-> 2, total |-> 3]

\* C25: when every extraction call eventually completes, every Processing
\* phase is eventually left for Quiz or Upload.
C25_ProcessingEnds == (appState = PROCESSING) ~> (appState \in {QUIZ, UPLOAD})

C25_Witness ==
    /\ lastOp.op = "extractionRejected"
    /\ appState = UPLOAD
    /\ error = FallbackMessage
    /\ inFlight = 0

\* C26: navigateTo with an index outside [0, questionCount-1] is a no-op or
\* clamps: after any call the current index is within the range and the
\* visited set holds no index outside it.
C26_NavigateBoundsChecked ==
    appState = QUIZ =>
        /\ currentIndex \in 0..(totalQuestions - 1)
        /\ visited \subseteq 0..(totalQuestions - 1)

\* C27: within a quiz the answer map changes only in a selectOption or a
\* clearResponse step (navigation, mark toggling, Save & Next, zoom, lightbox
\* and timer ticks leave it as it is), and a selectOption or clearResponse
\* step leaves the current index, the visited set and the marked set as they
\* are.
AnswerOps == {"selectOption", "clearResponse"}

C27_AnswerFrame ==
    [][/\ (answers' # answers => lastOp'.op \in AnswerOps)
       /\ (lastOp'.op \in AnswerOps =>
               /\ currentIndex' = currentIndex
               /\ visited' = visited
               /\ markedForReview' = markedForReview)]_vars

C27_Witness ==
    /\ lastOp.op = "clearResponse"
    /\ lastOp.pre = "answered"
    /\ currentIndex = 1
    /\ markedForReview # {}
    /\ DOMAIN answers # {}
    /\ seconds > 0
    /\ diagramScale # 100

\* C28: every step that enters the Quiz phase, the first quiz and any later
\* one alike, leaves the navigation state fresh: current index 0, visited
\* set {0}, no answers, no marks, elapsed seconds 0.
C28_FreshOnEntry ==
    [][(appState # QUIZ /\ appState' = QUIZ) =>
          /\ currentIndex' = 0
          /\ visited' = {0}
          /\ answers' = EmptyObject
          /\ markedForReview' = {}
          /\ seconds' = 0]_vars

\* A quiz entered after the clock of an earlier quiz had run.
C28_Witness ==
    /\ appState = QUIZ
    /\ lastOp.op = "extractionSucceeded"
    /\ lastOp.pre = "clockRan"
    /\ seconds = 0
    /\ visited = {0}

\* C29: the figure area shows exactly one of the diagram, "loading" and "no
\* diagram"; "loading" is shown exactly while the document is not loaded; a
\* step that brings up a question without a bounding box while the document
\* is loaded leaves the inline canvas cleared and "no diagram" shown; and
\* when the document is loaded and no render is in flight, the diagram is
\* shown if and only if the current question has a non-zero bounding box.
C29_NoDiagramState ==
    /\ [](Cardinality(DiagramPanel) = 1)
    /\ [](("loading" \in DiagramPanel) <=> ~pdfDoc)
    /\ [][(/\ pdfDoc'
           /\ (currentIndex' # currentIndex \/ ~pdfDoc)
           /\ IsEmptyBox(BoundingBoxOf(question')))
          => (canvas' = Blank /\ DiagramPanel' = {"noDiagram"})]_vars
    /\ []((pdfDoc /\ renders = {}) =>
            (DiagramPanel = (IF IsEmptyBox(BoundingBoxOf(question))
                             THEN {"noDiagram"} ELSE {"canvas"})))

\* A question without a figure brought up while the canvas held a drawing.
C29_Witness ==
    /\ lastOp = Op("navigateTo", "drawn")
    /\ pdfDoc
    /\ IsEmptyBox(BoundingBoxOf(question))
    /\ canvas = Blank
    /\ DiagramPanel = {"noDiagram"}
    /\ renders = {}

\* A box the claim speaks of: not all-zero, components within [0, 1000],
\* ymin <= ymax and xmin <= xmax.
ValidBox(bbox) ==
    /\ ~IsEmptyBox(bbox)
    /\ \A i \in 1..4 : 0 <= bbox[i] /\ bbox[i] <= 1000
    /\ bbox[1] <= bbox[3]
    /\ bbox[2] <= bbox[4]

\* [xmin-20, xmax+20] x [ymin-20, ymax+20] scaled by the page dimensions over
\* 1000 and intersected with the page, in thousandths of a pixel.
PaddedBoxOnPage(bbox, vp) ==
    LET left   == Max(0, (bbox[2] - 20) * vp[1])
        top    == Max(0, (bbox[1] - 20) * vp[2])
        right  == Min(1000 * vp[1], (bbox[4] + 20) * vp[1])
        bottom == Min(1000 * vp[2], (bbox[3] + 20) * vp[2])
    IN  [x |-> left, y |-> top, w |-> right - left, h |-> bottom - top,
         width |-> 1000 * vp[1], height |-> 1000 * vp[2]]

\* C30: the crop rectangle computed for a non-zero bounding box with
\* components in [0, 1000], ymin <= ymax and xmin <= xmax is the box expanded
\* by 20 units on each side, scaled to the page and intersected with the
\* page, so that a box with xmin < 20 (ymin < 20) still has its right
\* (bottom) edge at (xmax+20)/1000*pageWidth ((ymax+20)/1000*pageHeight); for
\* the box [100,100,300,400] on a 2000x2828 page x is 160 and the width 680.
C30_CropIsPaddedBox ==
    [][\A t \in RenderTasks, vp \in Viewports :
         (GetPageResolved(t, vp) /\ ValidBox(BoundingBoxOf(RenderedQuestion(t))))
            => /\ cropRect' = PaddedBoxOnPage(BoundingBoxOf(RenderedQuestion(t)), vp)
               /\ (/\ BoundingBoxOf(RenderedQuestion(t)) = <<100, 100, 300, 400>>
                   /\ vp = <<2000, 2828>>)
                     => (cropRect'.x = 160000 /\ cropRect'.w = 680000)]_vars


\* C31: when the lightbox canvas and the inline canvas both show the crop of
\* the current question, the lightbox raster is strictly larger in pixels
\* than the inline raster: neither dimension is smaller and one is larger.
C31_LightboxLarger ==
    (/\ pdfDoc /\ isLightboxOpen /\ hasDiagram /\ renders = {}
     /\ canvas = currentIndex /\ lightboxCanvas = currentIndex)
       => /\ rasterSize.lightboxCanvas[1] >= rasterSize.canvas[1]
          /\ rasterSize.lightboxCanvas[2] >= rasterSize.canvas[2]
          /\ \/ rasterSize.lightboxCanvas[1] > rasterSize.canvas[1]
             \/ rasterSize.lightboxCanvas[2] > rasterSize.canvas[2]


\* C32: in Processing the progress starts from 0, never decreases, stays
\* below 100, and every tick of the progress interval strictly increases it,
\* however long the extraction takes.
C32_ProgressNeverFrozen ==
    /\ []((appState = PROCESSING /\ ~crashed) =>
            /\ uploadProgress < 1000
            /\ \A jump \in Jumps(uploadProgress) :
                  ProgressAfterTick(uploadProgress, jump) > uploadProgress)
    /\ [][(appState # PROCESSING /\ appState' = PROCESSING)
            => uploadProgress' = 0]_vars
    /\ [][(appState = PROCESSING /\ appState' = PROCESSING)
            => uploadProgress' >= uploadProgress]_vars


\* C33: picking or dropping a file that is not a PDF happens in Upload and
\* leaves the phase at Upload, starts no file read and no extraction call,
\* and leaves the stored PDF bytes, the quiz data and the error as they were.
C33_NonPdfRejected ==
    [][lastOp'.op = "rejectFile" =>
         /\ appState = UPLOAD
         /\ appState' = UPLOAD
         /\ readers' = readers
         /\ inFlight' = inFlight
         /\ pdfBase64' = pdfBase64
         /\ quizData' = quizData
         /\ error' = error]_vars

\* A rejection while the error and the bytes of a failed upload are held and
\* the read of another file is pending.
C33_Witness ==
    /\ lastOp.op = "rejectFile"
    /\ appState = UPLOAD
    /\ error # Null
    /\ pdfBase64 # Null
    /\ Sum(readers) > 0


\* C34: without API_KEY no request goes to the extraction service, every
\* extraction call ends with the session in Upload and the missing-key
\* message as error, the quiz data is left alone, and neither Quiz nor
\* Results is ever entered.
C34_MissingKeyFailsFast ==
    /\ [](\A o \in parsePdfToQuiz(FALSE) : ~o.sent)
    /\ [](appState \notin {QUIZ, RESULTS})
    /\ [][inFlight' < inFlight =>
            /\ appState' = UPLOAD
            /\ error' = ApiKeyMissingMessage
            /\ error' # ""
            /\ quizData' = quizData]_vars

C34_Witness ==
    /\ lastOp.op = "extractionRejected"
    /\ appState = UPLOAD
    /\ error = ApiKeyMissingMessage
    /\ pdfBase64 # Null
    /\ quizData = NullData


\* The ways a detailed-solution generation fails.
SolveFailures == {"serviceError", "empty", "noApiKey"}

\* C35: a detailed-solution generation that fails (service error, empty
\* response, missing credential) leaves the phase, the quiz data, the answer
\* snapshot and the solutions of the other questions as they were and does
\* not bring the session down; and a question that is loading is eventually
\* not loading again.
C35_SolutionFailureContained ==
    /\ [][\A id \in QuestionIds, outcome \in SolveFailures :
            SolutionSettled(id, outcome) =>
               /\ appState' = appState
               /\ quizData' = quizData
               /\ userAnswers' = userAnswers
               /\ ~crashed'
               /\ \A other \in QuestionIds \ {id} :
                     Lookup(detailedSolutions', other)
                        = Lookup(detailedSolutions, other)]_vars
    /\ \A id \in QuestionIds : IsLoading(id) ~> ~IsLoading(id)

\* A rejected request settled next to the stored solution of another
\* question, nothing loading any more.
C35_Witness ==
    /\ appState = RESULTS
    /\ lastOp = Op("solutionSettled", "noApiKey")
    /\ \E other \in QuestionIds : Lookup(detailedSolutions, other) = "## Solution"
    /\ \A id \in QuestionIds : ~IsLoading(id)
    /\ \E id \in DOMAIN loadingSolutions : ~Truthy(Lookup(detailedSolutions, id))


\* C36: when files are picked one at a time, an extraction call that is
\* pending while the phase is Upload was started before a retry; its
\* completion, success or failure, leaves the phase at Upload and the quiz
\* data and the error as they were.
C36_StaleResultIgnored ==
    [][(appState = UPLOAD /\ inFlight > 0 /\ inFlight' < inFlight) =>
          /\ appState' = UPLOAD
          /\ quizData' = quizData
          /\ error' = error]_vars


\* C37: whenever the phase is Quiz or Results the quiz data is an object with
\* at least one question, and whenever the phase is Quiz the PDF bytes are
\* stored.
C37_QuizHasDataAndBytes ==
    /\ appState \in {QUIZ, RESULTS} => WellFormed(quizData)
    /\ appState = QUIZ => pdfBase64 # Null


\* The visited indices of the questions with the given id.
VisitedWithId(id) ==
    {i \in visited : i < totalQuestions /\ quizData.questions[i + 1].id = id}

\* C38: in Quiz the current index is in the visited set, every id with an
\* answer or a mark is the id of a question at a visited index, and the
\* status of an index is not_visited exactly when the index is outside the
\* visited set.
C38_VisitedCoversProgress ==
    appState = QUIZ =>
        /\ currentIndex \in visited
        /\ \A id \in DOMAIN answers \cup markedForReview : VisitedWithId(id) # {}
        /\ \A i \in 0..(totalQuestions - 1) :
              (StatusAt(i) = "not_visited") <=> (i \notin visited)


\* A box with four components in [0, 1000] that is not all-zero, in any
\* order of its edges.
InRangeBox(bbox) ==
    /\ Len(bbox) = 4
    /\ ~IsEmptyBox(bbox)
    /\ \A i \in 1..4 : 0 <= bbox[i] /\ bbox[i] <= 1000

\* C39: the crop rectangle computed for a box that is not all-zero with all
\* components in [0, 1000], boxes with ymax < ymin or xmax < xmin included,
\* has width >= 0 and height >= 0, and so has the size given to the canvas.
C39_CropNonNegative ==
    [][\A t \in RenderTasks, vp \in Viewports :
         (GetPageResolved(t, vp) /\ InRangeBox(BoundingBoxOf(RenderedQuestion(t))))
            => /\ cropRect'.w >= 0
               /\ cropRect'.h >= 0
               /\ rasterSize'[t.target][1] >= 0
               /\ rasterSize'[t.target][2] >= 0]_vars


\* C40: in Results no solution request is issued for a question while one
\* for it is in flight, a question is loading exactly while its request is
\* in flight, and a stored solution stays as it is for as long as the report
\* is shown.
C40_OneRequestPerQuestion ==
    /\ [][\A id \in QuestionIds :
            (HandleSolveWithAI(id) /\ IsLoading(id)')
               => id \notin solveRequests]_vars
    /\ [](\A id \in QuestionIds : IsLoading(id) <=> id \in solveRequests)
    /\ [][\A id \in QuestionIds :
            (Truthy(Lookup(detailedSolutions, id)) /\ appState' = RESULTS)
               => Lookup(detailedSolutions', id)
                     = Lookup(detailedSolutions, id)]_vars

\* A request issued for one question while the solution of another is
\* stored and a third request has failed.
C40_Witness ==
    /\ appState = RESULTS
    /\ lastOp.op = "solveWithAI"
    /\ Cardinality(solveRequests) = 1
    /\ \E id \in QuestionIds : Lookup(detailedSolutions, id) = "## Solution"
    /\ \E id \in QuestionIds : Lookup(detailedSolutions, id) = SolutionFallback

====
